---------------------------- MODULE Spec2Model ----------------------------
(***************************************************************************)
(* A model of src/main.py: a FastAPI application with four routes,         *)
(*   GET /, GET /api/hello, POST /api/chat and GET /test.                  *)
(*                                                                         *)
(* Text is a sequence of one-character strings, so that strip, slicing,    *)
(* reversal and f-string interpolation are modelled by what they do.       *)
(* The three emoji of the /test strings are written [ok], [x] and [!].     *)
(* Request bodies are JSON values, written as tagged records.              *)
(*                                                                         *)
(* Sync handlers run on a thread pool: a Worker is one such thread, its    *)
(* record holds the locals of the handler call it is running, and the      *)
(* handlers of different workers interleave.                               *)
(***************************************************************************)
EXTENDS Integers, Sequences, FiniteSets

VARIABLES pending, worker, log, env, database

vars == <<pending, worker, log, env, database>>

----------------------------------------------------------------------------
(* Bounds of the model *)

\* longest run of the filler character in a request message
MaxFill == 42
\* longest supplied history
MaxHistory == 10
\* longest error text of the database collaborator
MaxErrLen == 52
\* most collection names the database collaborator lists
MaxCollections == 12
\* most requests of one client script in SpecSeq
MaxSeq == 3

(* Constants of the program *)

\* user_msg[::-1][:40]
HintLen == 40
\* req.history[-8:]
KeepLast == 8
\* collections[:10]
ShownCollections == 10
\* str(e)[:50]
ErrShown == 50

Workers == {1, 2}

----------------------------------------------------------------------------
(* Python text and list operations *)

Fill(c, n) == [i \in 1..n |-> c]

\* s[:n]
Take(s, n) == SubSeq(s, 1, IF n < Len(s) THEN n ELSE Len(s))

\* s[-n:]
LastN(s, n) == SubSeq(s, IF Len(s) > n THEN Len(s) - n + 1 ELSE 1, Len(s))

\* s[::-1]
Reverse(s) == [i \in 1..Len(s) |-> s[Len(s) + 1 - i]]

Whitespace == {" ", "\t", "\n"}

\* str.strip(): the text between its first and its last non-whitespace character
strip(s) ==
    LET keep == {i \in 1..Len(s) : s[i] \notin Whitespace}
        first == CHOOSE i \in keep : \A j \in keep : i <= j
        last == CHOOSE i \in keep : \A j \in keep : j <= i
    IN  IF keep = {} THEN <<>> ELSE SubSeq(s, first, last)

\* dict.get(key, default)
get(m, key, default) == IF key \in DOMAIN m.fields THEN m.fields[key] ELSE default

----------------------------------------------------------------------------
(* JSON values of a request body *)

JStr(s) == [type |-> "string", value |-> s]
JNull == [type |-> "null"]
JNumber(n) == [type |-> "number", value |-> n]
JArray(items) == [type |-> "array", items |-> items]
JObject(fields) == [type |-> "object", fields |-> fields]

----------------------------------------------------------------------------
(* Literal texts of the handlers *)

\* Hi! I'm a lightweight demo assistant. Ask me anything, or say hello to get started.
Onboarding ==
    << "H", "i", "!", " ", "I", "'", "m", " ", "a", " ", "l", "i", "g", "h", "t", "w", "e",
       "i", "g", "h", "t", " ", "d", "e", "m", "o", " ", "a", "s", "s", "i", "s", "t", "a",
       "n", "t", ".", " ", "A", "s", "k", " ", "m", "e", " ", "a", "n", "y", "t", "h", "i",
       "n", "g", ",", " ", "o", "r", " ", "s", "a", "y", " ", "h", "e", "l", "l", "o", " ",
       "t", "o", " ", "g", "e", "t", " ", "s", "t", "a", "r", "t", "e", "d", "." >>

\* You said: '
ReplyHead ==
    << "Y", "o", "u", " ", "s", "a", "i", "d", ":", " ", "'" >>

\* '. Here's a quick thought: focus on one clear step next. (fun hint: '
ReplyMiddle ==
    << "'", ".", " ", "H", "e", "r", "e", "'", "s", " ", "a", " ", "q", "u", "i", "c", "k",
       " ", "t", "h", "o", "u", "g", "h", "t", ":", " ", "f", "o", "c", "u", "s", " ", "o",
       "n", " ", "o", "n", "e", " ", "c", "l", "e", "a", "r", " ", "s", "t", "e", "p", " ",
       "n", "e", "x", "t", ".", " ", "(", "f", "u", "n", " ", "h", "i", "n", "t", ":", " ",
       "'" >>

\* ' backwards).
ReplyTail ==
    << "'", " ", "b", "a", "c", "k", "w", "a", "r", "d", "s", ")", "." >>

\* [!]  Connected but Error:
DbConnectedButError ==
    << "[", "!", "]", " ", " ", "C", "o", "n", "n", "e", "c", "t", "e", "d", " ", "b", "u",
       "t", " ", "E", "r", "r", "o", "r", ":", " " >>

\* [x] Error:
DbError ==
    << "[", "x", "]", " ", "E", "r", "r", "o", "r", ":", " " >>

\* [x] Not Available
DbNotAvailable ==
    << "[", "x", "]", " ", "N", "o", "t", " ", "A", "v", "a", "i", "l", "a", "b", "l",
       "e" >>

\* [ok] Available
DbAvailable ==
    << "[", "o", "k", "]", " ", "A", "v", "a", "i", "l", "a", "b", "l", "e" >>

\* [ok] Connected & Working
DbWorking ==
    << "[", "o", "k", "]", " ", "C", "o", "n", "n", "e", "c", "t", "e", "d", " ", "&", " ",
       "W", "o", "r", "k", "i", "n", "g" >>

\* [!]  Available but not initialized
DbNotInitialized ==
    << "[", "!", "]", " ", " ", "A", "v", "a", "i", "l", "a", "b", "l", "e", " ", "b", "u",
       "t", " ", "n", "o", "t", " ", "i", "n", "i", "t", "i", "a", "l", "i", "z", "e",
       "d" >>

\* [x] Database module not found (run enable-database first)
DbModuleNotFound ==
    << "[", "x", "]", " ", "D", "a", "t", "a", "b", "a", "s", "e", " ", "m", "o", "d", "u",
       "l", "e", " ", "n", "o", "t", " ", "f", "o", "u", "n", "d", " ", "(", "r", "u", "n",
       " ", "e", "n", "a", "b", "l", "e", "-", "d", "a", "t", "a", "b", "a", "s", "e", " ",
       "f", "i", "r", "s", "t", ")" >>

----------------------------------------------------------------------------
(* The request and response models *)

\* ChatRequest: message: str, history: List[dict] | None = None.
\* A body is schema-valid when message is a string and history is absent,
\* null or a list of objects; anything else is answered 422 by the framework.
ChatRequest_valid(body) ==
    /\ "message" \in DOMAIN body
    /\ body.message.type = "string"
    /\ "history" \in DOMAIN body =>
          \/ body.history.type = "null"
          \/ /\ body.history.type = "array"
             /\ \A i \in 1..Len(body.history.items) :
                   body.history.items[i].type = "object"

\* req.history after validation: None when absent or null
req_history(body) ==
    IF "history" \in DOMAIN body /\ body.history.type = "array"
    THEN body.history.items
    ELSE <<>>

\* ChatMessage.role: Literal["user", "assistant", "system"]
ValidRoles == {"user", "assistant", "system"}

\* ChatMessage(role=role, content=content): the constructor validates content: str,
\* and raises ValidationError on anything that is not text
ChatMessage_accepts(role, content) ==
    /\ role.type = "string"
    /\ role.value \in ValidRoles
    /\ content.type = "string"

ChatMessage(role, content) == [role |-> role, content |-> content]

----------------------------------------------------------------------------
(* POST /api/chat *)

\* line 49: user_msg = (req.message or "").strip()
user_msg_of(body) == strip(body.message.value)

\* a variant of line 57 that truncates before it reverses: user_msg[:40][::-1]
reversed_hint_of_first(user_msg) == Reverse(Take(user_msg, HintLen))

\* line 57: reversed_hint = user_msg[::-1][:40]
reversed_hint(user_msg) == Take(Reverse(user_msg), HintLen)

\* a variant of lines 51-61 without the test for an empty message
assistant_reply_always_echo(user_msg) ==
    ReplyHead \o user_msg \o ReplyMiddle \o reversed_hint(user_msg) \o ReplyTail

\* lines 51-61: the reply
assistant_reply_of(user_msg) ==
    IF user_msg = <<>>
    THEN Onboarding
    ELSE ReplyHead \o user_msg \o ReplyMiddle \o reversed_hint(user_msg) \o ReplyTail

\* a variant of line 66 that visits the whole history
visited_all(history) == history

\* line 66: the entries the loop visits
visited(history) == LastN(history, KeepLast)

\* a variant of line 67 without the default: m.get("role")
role_of_required(m) == get(m, "role", JNull)

\* line 67: role = m.get("role", "user")
role_of(m) == get(m, "role", JStr("user"))

\* line 68: content = m.get("content", "")
content_of(m) == get(m, "content", JStr(<<>>))

\* line 69: if role in ("user", "assistant", "system")
role_kept(role) == role.type = "string" /\ role.value \in ValidRoles

\* lines 66-70: the loop over req.history[-8:], from history = []. The result is
\* the list built, or raised = TRUE when a ChatMessage constructor raised.
RECURSIVE history_loop(_, _)
history_loop(items, acc) ==
    IF items = <<>>
    THEN [raised |-> FALSE, history |-> acc]
    ELSE LET m == Head(items)
             role == role_of(m)
             content == content_of(m)
         IN  IF role_kept(role)
             THEN IF ChatMessage_accepts(role, content)
                  THEN history_loop(Tail(items),
                                    Append(acc, ChatMessage(role.value, content.value)))
                  ELSE [raised |-> TRUE, history |-> acc]
             ELSE history_loop(Tail(items), acc)

\* a variant of line 63 where the list outlives the call: it starts from the
\* messages of the last ChatResponse the server sent
history_start_shared ==
    IF log # <<>> /\ log[Len(log)].request.route = "POST /api/chat"
                 /\ log[Len(log)].response.status = 200
    THEN log[Len(log)].response.body.messages
    ELSE <<>>

\* line 63: history = []
history_start == <<>>

\* lines 63-70
build_history(items) ==
    IF items # <<>>
    THEN history_loop(visited(items), history_start)
    ELSE [raised |-> FALSE, history |-> history_start]

\* a variant of lines 72-73 that appends the reply before the user message
ChatResponse_reply_first(user_msg, assistant_reply, history) ==
    [status |-> 200,
     body |-> [reply |-> assistant_reply,
               messages |-> history \o << ChatMessage("assistant", assistant_reply),
                                          ChatMessage("user", user_msg) >>]]

\* lines 72-75
ChatResponse(user_msg, assistant_reply, history) ==
    [status |-> 200,
     body |-> [reply |-> assistant_reply,
               messages |-> history \o << ChatMessage("user", user_msg),
                                          ChatMessage("assistant", assistant_reply) >>]]

\* what the framework answers when the body fails ChatRequest's validation
ValidationFailure == [status |-> 422, body |-> [detail |-> "validation error"]]

\* what the framework answers when an exception leaves a handler
InternalServerError == [status |-> 500, body |-> [detail |-> "Internal Server Error"]]

----------------------------------------------------------------------------
(* GET / and GET /api/hello *)

\* line 35
read_root_response == [status |-> 200, body |-> [message |-> "Hello from FastAPI Backend!"]]

\* line 40
hello_response == [status |-> 200, body |-> [message |-> "Hello from the backend API!"]]

----------------------------------------------------------------------------
(* GET /test *)

\* The exception classes the collaborator raises, each with its base classes.
\* All of them are errors, that is subclasses of Exception.
Bases(class) ==
    CASE class = "ModuleNotFoundError" ->
             {"ModuleNotFoundError", "ImportError", "Exception", "BaseException"}
      [] class = "ImportError" -> {"ImportError", "Exception", "BaseException"}
      [] class = "RuntimeError" -> {"RuntimeError", "Exception", "BaseException"}
      [] class = "ConnectionFailure" ->
             {"ConnectionFailure", "Exception", "BaseException"}
      [] OTHER -> {class, "BaseException"}

\* the match of an except clause
isinstance(class, base) == base \in Bases(class)

\* an environment variable that is not set
Unset == "<unset>"

\* os.getenv(name): None when the variable is not set
getenv(e, name) == e[name]

\* the truth value of what os.getenv returns: None and "" are false
truthy(value) == value # Unset /\ value # ""

\* lines 81-88; None is written "None"
response_start ==
    [backend |-> "[ok] Running",
     database |-> DbNotAvailable,
     database_url |-> "None",
     database_name |-> "None",
     connection_status |-> "Not Connected",
     collections |-> <<>>]

\* a variant of lines 101-106 without the two slices
list_collections_unsliced(d, r) ==
    IF d.list_raises = ""
    THEN [raised |-> "", text |-> <<>>,
          response |-> [r EXCEPT !.collections = d.collection_names,
                                 !.database = DbWorking]]
    ELSE [raised |-> "", text |-> <<>>,
          response |-> [r EXCEPT !.database = DbConnectedButError \o d.list_text]]

\* lines 101-106: the inner try. raised is the class of an exception that leaves it.
list_collections(d, r) ==
    IF d.list_raises = ""
    THEN [raised |-> "", text |-> <<>>,
          response |-> [r EXCEPT !.collections = Take(d.collection_names, ShownCollections),
                                 !.database = DbWorking]]
    ELSE IF isinstance(d.list_raises, "Exception")
         THEN [raised |-> "", text |-> <<>>,
               response |-> [r EXCEPT !.database =
                                DbConnectedButError \o Take(d.list_text, ErrShown)]]
         ELSE [raised |-> d.list_raises, text |-> d.list_text, response |-> r]

\* lines 92-108: the body of the outer try
try_body(d, r) ==
    IF d.import_raises # ""
    THEN [raised |-> d.import_raises, text |-> d.import_text, response |-> r]
    ELSE IF d.db # "None"
         THEN list_collections(d,
                  [r EXCEPT !.database = DbAvailable,
                            !.database_url = "[ok] Configured",
                            !.database_name =
                                IF d.has_name THEN d.name ELSE "[ok] Connected",
                            !.connection_status = "Connected"])
         ELSE [raised |-> "", text |-> <<>>,
               response |-> [r EXCEPT !.database = DbNotInitialized]]

\* a variant of lines 110-113 without the clause `except Exception`
outer_except_import_only(t) ==
    IF t.raised = ""
    THEN [escaped |-> FALSE, response |-> t.response]
    ELSE IF isinstance(t.raised, "ImportError")
         THEN [escaped |-> FALSE,
               response |-> [t.response EXCEPT !.database = DbModuleNotFound]]
         ELSE [escaped |-> TRUE, response |-> t.response]

\* lines 110-113: the except clauses of the outer try
outer_except(t) ==
    IF t.raised = ""
    THEN [escaped |-> FALSE, response |-> t.response]
    ELSE IF isinstance(t.raised, "ImportError")
         THEN [escaped |-> FALSE,
               response |-> [t.response EXCEPT !.database = DbModuleNotFound]]
         ELSE IF isinstance(t.raised, "Exception")
              THEN [escaped |-> FALSE,
                    response |-> [t.response EXCEPT !.database =
                                     DbError \o Take(t.text, ErrShown)]]
              ELSE [escaped |-> TRUE, response |-> t.response]

\* a variant of lines 117-118 that fills only the fields that are still None
env_report_if_none(e, r) ==
    [r EXCEPT !.database_url =
                  IF r.database_url # "None" THEN r.database_url
                  ELSE IF truthy(getenv(e, "DATABASE_URL")) THEN "[ok] Set"
                  ELSE "[x] Not Set",
              !.database_name =
                  IF r.database_name # "None" THEN r.database_name
                  ELSE IF truthy(getenv(e, "DATABASE_NAME")) THEN "[ok] Set"
                  ELSE "[x] Not Set"]

\* lines 117-118
env_report(e, r) ==
    [r EXCEPT !.database_url =
                  IF truthy(getenv(e, "DATABASE_URL")) THEN "[ok] Set" ELSE "[x] Not Set",
              !.database_name =
                  IF truthy(getenv(e, "DATABASE_NAME")) THEN "[ok] Set" ELSE "[x] Not Set"]

\* lines 79-120
test_database_response(e, d) ==
    LET t == outer_except(try_body(d, response_start))
    IN  IF t.escaped
        THEN InternalServerError
        ELSE [status |-> 200, body |-> env_report(e, t.response)]

----------------------------------------------------------------------------
(* The requests the model sends *)

RootRequest == [route |-> "GET /"]
HelloRequest == [route |-> "GET /api/hello"]
TestRequest == [route |-> "GET /test"]
ChatRequest(body) == [route |-> "POST /api/chat", body |-> body]

\* the text of a message: an optional "b", a run of "a", an optional "c"
Texts ==
    { head \o Fill("a", k) \o tail :
        head \in {<<>>, <<"b">>}, k \in 0..MaxFill, tail \in {<<>>, <<"c">>} }

\* messages: a text with optional whitespace before and after it
Messages ==
    { lead \o text \o trail :
        lead \in {<<>>, <<" ">>}, text \in Texts, trail \in {<<>>, <<"\t">>} }

\* the messages sent with every history
FewMessages ==
    { <<>>,
      <<" ", "\t", "\n">>,
      <<"h", "i">>,
      <<" ", "b", " ", "a", "\t">>,
      <<"b">> \o Fill("a", HintLen) \o <<"c", "\n">> }

Digits == <<"1", "2", "3", "4", "5", "6", "7", "8", "9", "A", "B", "C", "D", "E", "F">>

\* the role of a history entry: three valid roles, two invalid ones, null, and no role key
RoleCycle ==
    << JStr("user"), JStr("tool"), JStr("assistant"), JStr("<absent>"),
       JStr("system"), JNull, JStr("User") >>

\* The i-th entry of a history: its role follows RoleCycle from `shift`, its content
\* is a text that names its position, is missing at every third position and is null
\* at position nullAt; every second entry carries an extra key.
Entry(i, shift, nullAt) ==
    LET role == RoleCycle[((i + shift) % Len(RoleCycle)) + 1]
        keys == (IF role = JStr("<absent>") THEN {} ELSE {"role"})
                \cup (IF i % 3 = 0 /\ i # nullAt THEN {} ELSE {"content"})
                \cup (IF i % 2 = 0 THEN {"name"} ELSE {})
    IN  JObject([k \in keys |->
                    CASE k = "role" -> role
                      [] k = "content" ->
                             IF i = nullAt THEN JNull ELSE JStr(<<"m", Digits[i]>>)
                      [] OTHER -> JNumber(i)])

History(n, shift, nullAt) == [i \in 1..n |-> Entry(i, shift, nullAt)]

Histories ==
    UNION { { History(n, shift, nullAt) :
                shift \in 0..(Len(RoleCycle) - 1), nullAt \in {0, 1, n} } :
            n \in 0..MaxHistory }

\* bodies that match the schema of ChatRequest
ValidBodies ==
    { [message |-> JStr(m)] : m \in Messages }
    \cup { [message |-> JStr(m), history |-> JNull] : m \in FewMessages }
    \cup { [message |-> JStr(m), history |-> JArray(h)] : m \in FewMessages, h \in Histories }

\* bodies that do not: no message, a null message, a history that is no list,
\* a history entry that is no object
MalformedBodies ==
    { [history |-> JArray(<<>>)],
      [message |-> JNull],
      [message |-> JStr(<<"h", "i">>), history |-> JStr(<<"x">>)],
      [message |-> JStr(<<"h", "i">>), history |-> JArray(<<JNumber(5)>>)] }

ChatBodies == ValidBodies \cup MalformedBodies

DefaultEnv == [DATABASE_URL |-> Unset, DATABASE_NAME |-> Unset]

Envs ==
    [DATABASE_URL : {Unset, "", "mongodb://localhost:27017"},
     DATABASE_NAME : {Unset, "", "appdb"}]

ErrTexts == { Fill("e", k) \o <<"!">> : k \in 0..(MaxErrLen - 1) } \cup {<<>>}

CollectionNames(n) == [i \in 1..n |-> <<"c", Digits[i]>>]

\* the collaborator when `from database import db` raises ImportError
NoModule ==
    [import_raises |-> "ModuleNotFoundError", import_text |-> <<"n", "o">>,
     db |-> "None", has_name |-> FALSE, name |-> "",
     list_raises |-> "", list_text |-> <<>>, collection_names |-> <<>>]

\* the collaborator's states: the import fails, the import raises another error,
\* db is None, db lists its collections, db raises when listing them
Databases ==
    { [NoModule EXCEPT !.import_raises = c] : c \in {"ImportError", "ModuleNotFoundError"} }
    \cup { [NoModule EXCEPT !.import_raises = "RuntimeError", !.import_text = t] :
             t \in ErrTexts }
    \cup { [NoModule EXCEPT !.import_raises = ""] }
    \cup { [NoModule EXCEPT !.import_raises = "", !.db = "handle", !.has_name = h,
                            !.name = IF h THEN "handle-name" ELSE "",
                            !.collection_names = CollectionNames(n)] :
             h \in BOOLEAN, n \in 0..MaxCollections }
    \cup { [NoModule EXCEPT !.import_raises = "", !.db = "handle", !.has_name = h,
                            !.name = IF h THEN "handle-name" ELSE "",
                            !.list_raises = c, !.list_text = t] :
             h \in BOOLEAN, c \in {"ConnectionFailure", "ImportError"}, t \in ErrTexts }

----------------------------------------------------------------------------
(* The server *)

Idle ==
    [pc |-> "idle", req |-> [route |-> "none"],
     user_msg |-> <<>>, assistant_reply |-> <<>>, history |-> <<>>]

\* the handler the router dispatches a route to
handler_of(route) ==
    CASE route = "GET /" -> "read_root"
      [] route = "GET /api/hello" -> "hello"
      [] route = "POST /api/chat" -> "chat"
      [] route = "GET /test" -> "test_database"

\* the response leaves the server, and the worker is free again
Finish(w, response) ==
    /\ log' = Append(log, [request |-> worker[w].req, response |-> response])
    /\ worker' = [worker EXCEPT ![w] = Idle]

\* A request arrives at a free worker. The body of a chat request is validated
\* against ChatRequest before the handler is called.
Receive(w) ==
    /\ pending # <<>>
    /\ worker[w].pc = "idle"
    /\ pending' = Tail(pending)
    /\ LET req == Head(pending)
       IN  IF req.route = "POST /api/chat" /\ ~ChatRequest_valid(req.body)
           THEN /\ log' = Append(log, [request |-> req, response |-> ValidationFailure])
                /\ UNCHANGED worker
           ELSE /\ worker' = [worker EXCEPT ![w] =
                                 [Idle EXCEPT !.pc = handler_of(req.route), !.req = req]]
                /\ UNCHANGED log
    /\ UNCHANGED <<env, database>>

read_root(w) ==
    /\ worker[w].pc = "read_root"
    /\ Finish(w, read_root_response)
    /\ UNCHANGED <<pending, env, database>>

hello(w) ==
    /\ worker[w].pc = "hello"
    /\ Finish(w, hello_response)
    /\ UNCHANGED <<pending, env, database>>

\* chat, lines 49-61
chat_reply(w) ==
    /\ worker[w].pc = "chat"
    /\ LET user_msg == user_msg_of(worker[w].req.body)
       IN  worker' = [worker EXCEPT ![w].user_msg = user_msg,
                                    ![w].assistant_reply = assistant_reply_of(user_msg),
                                    ![w].pc = "chat_history"]
    /\ UNCHANGED <<pending, log, env, database>>

\* chat, lines 63-70; an exception of the loop leaves the handler
chat_history(w) ==
    /\ worker[w].pc = "chat_history"
    /\ LET built == build_history(req_history(worker[w].req.body))
       IN  IF built.raised
           THEN Finish(w, InternalServerError)
           ELSE /\ worker' = [worker EXCEPT ![w].history = built.history,
                                            ![w].pc = "chat_return"]
                /\ UNCHANGED log
    /\ UNCHANGED <<pending, env, database>>

\* chat, lines 72-75
chat_return(w) ==
    /\ worker[w].pc = "chat_return"
    /\ Finish(w, ChatResponse(worker[w].user_msg, worker[w].assistant_reply,
                              worker[w].history))
    /\ UNCHANGED <<pending, env, database>>

test_database(w) ==
    /\ worker[w].pc = "test_database"
    /\ Finish(w, test_database_response(env, database))
    /\ UNCHANGED <<pending, env, database>>

Next ==
    \E w \in Workers :
        \/ Receive(w)
        \/ read_root(w)
        \/ hello(w)
        \/ chat_reply(w)
        \/ chat_history(w)
        \/ chat_return(w)
        \/ test_database(w)

\* one request: a chat request with any body, or a request of another route under
\* any environment and any state of the collaborator
Init ==
    /\ worker = [w \in Workers |-> Idle]
    /\ log = <<>>
    /\ \/ /\ pending \in { <<ChatRequest(b)>> : b \in ChatBodies }
          /\ env = DefaultEnv
          /\ database = NoModule
       \/ /\ pending \in { <<RootRequest>>, <<HelloRequest>>, <<TestRequest>> }
          /\ env \in Envs
          /\ database \in Databases

Spec == Init /\ [][Next]_vars

\* the requests of a client script
SmallRequests ==
    { RootRequest, HelloRequest, TestRequest,
      ChatRequest([message |-> JStr(<<"h", "i">>)]),
      ChatRequest([message |-> JStr(<<" ", "h", "i">>),
                   history |-> JArray(History(3, 0, 0))]),
      ChatRequest([message |-> JStr(<<>>), history |-> JArray(History(2, 6, 1))]),
      ChatRequest([message |-> JNull]) }

\* a script of up to MaxSeq requests, served by the workers in any interleaving
InitSeq ==
    /\ worker = [w \in Workers |-> Idle]
    /\ log = <<>>
    /\ pending \in UNION { [1..n -> SmallRequests] : n \in 1..MaxSeq }
    /\ env \in { DefaultEnv, [DATABASE_URL |-> "mongodb://localhost:27017",
                               DATABASE_NAME |-> "appdb"] }
    /\ database \in { NoModule,
                       [NoModule EXCEPT !.import_raises = "", !.db = "handle",
                                        !.collection_names = CollectionNames(2)] }

SpecSeq == InitSeq /\ [][Next]_vars

----------------------------------------------------------------------------
(* What the claims speak of, stated without the handlers' own operators *)

IsChat(x) == x.request.route = "POST /api/chat"
IsTest(x) == x.request.route = "GET /test"

\* the request was answered with a ChatResponse
Answered(x) == IsChat(x) /\ x.response.status = 200

\* the body matches the schema: message is text; history is absent, null or a list
\* of objects
MatchesSchema(body) ==
    /\ "message" \in DOMAIN body /\ body.message.type = "string"
    /\ \/ "history" \notin DOMAIN body
       \/ body.history.type = "null"
       \/ /\ body.history.type = "array"
          /\ \A i \in DOMAIN body.history.items : body.history.items[i].type = "object"

\* the text without its leading and trailing whitespace
RECURSIVE Trimmed(_)
Trimmed(s) ==
    IF s = <<>> THEN <<>>
    ELSE IF Head(s) \in {" ", "\t", "\n"} THEN Trimmed(Tail(s))
    ELSE IF s[Len(s)] \in {" ", "\t", "\n"} THEN Trimmed(SubSeq(s, 1, Len(s) - 1))
    ELSE s

\* the message of a chat request, trimmed
TrimmedMessage(x) == Trimmed(x.request.body.message.value)

\* t occurs in s
Contains(s, t) ==
    \E i \in 0..(Len(s) - Len(t)) : SubSeq(s, i + 1, i + Len(t)) = t

\* the first n and the last n elements of s (all of s when it has fewer)
FirstOf(s, n) == [i \in 1..(IF Len(s) < n THEN Len(s) ELSE n) |-> s[i]]
NewestOf(s, n) ==
    LET k == IF Len(s) < n THEN Len(s) ELSE n IN [i \in 1..k |-> s[Len(s) - k + i]]
Backwards(s) == [i \in 1..Len(s) |-> s[Len(s) - i + 1]]

\* the history a chat request supplies
Supplied(x) ==
    IF "history" \in DOMAIN x.request.body /\ x.request.body.history.type = "array"
    THEN x.request.body.history.items
    ELSE <<>>

\* the messages of a ChatResponse before the two appended ones
ReturnedHistory(x) ==
    SubSeq(x.response.body.messages, 1, Len(x.response.body.messages) - 2)

\* a supplied entry with a missing role read as "user" and missing content as ""
Defaulted(m) ==
    [role |-> IF "role" \in DOMAIN m.fields THEN m.fields["role"] ELSE JStr("user"),
     content |-> IF "content" \in DOMAIN m.fields THEN m.fields["content"]
                 ELSE JStr(<<>>)]

\* a returned message as the JSON entry it stands for
AsEntry(msg) == [role |-> JStr(msg.role), content |-> JStr(msg.content)]

HasValidRole(e) == e.role \in {JStr("user"), JStr("assistant"), JStr("system")}

\* out is an order-preserving subsequence of the entries inp (after defaulting)
RECURSIVE IsSubsequence(_, _)
IsSubsequence(out, inp) ==
    IF out = <<>> THEN TRUE
    ELSE IF inp = <<>> THEN FALSE
    ELSE IF AsEntry(Head(out)) = Defaulted(Head(inp))
         THEN IsSubsequence(Tail(out), Tail(inp))
         ELSE IsSubsequence(out, Tail(inp))

----------------------------------------------------------------------------
(* The claims. Those about the content of a ChatResponse speak of the requests *)
(* that are answered with one; C6 is the claim that says which requests are.   *)

\* C1, as claimed: for every chat request whose trimmed message M is not empty, the
\* reply contains M and contains the first 40 characters of M, reversed.
C1_ReplyHasFirstFortyReversed ==
    \A i \in DOMAIN log :
        (Answered(log[i]) /\ TrimmedMessage(log[i]) # <<>>) =>
            /\ Contains(log[i].response.body.reply, TrimmedMessage(log[i]))
            /\ Contains(log[i].response.body.reply,
                        Backwards(FirstOf(TrimmedMessage(log[i]), 40)))

\* C1, amended: for every chat request whose trimmed message M is not empty, the
\* reply contains M and contains the last 40 characters of M, reversed (the first
\* 40 characters of the reversed M); for M of at most 40 characters, all of M reversed.
C1_ReplyHasLastFortyReversed ==
    \A i \in DOMAIN log :
        (Answered(log[i]) /\ TrimmedMessage(log[i]) # <<>>) =>
            /\ Contains(log[i].response.body.reply, TrimmedMessage(log[i]))
            /\ Contains(log[i].response.body.reply,
                        Backwards(NewestOf(TrimmedMessage(log[i]), 40)))

\* a reply to a message that is longer than 40 characters after trimming took
\* something off it, and whose two ends differ
C1_Witness ==
    \E i \in DOMAIN log :
        /\ Answered(log[i])
        /\ Len(TrimmedMessage(log[i])) > 40
        /\ TrimmedMessage(log[i]) # log[i].request.body.message.value
        /\ FirstOf(TrimmedMessage(log[i]), 40) # NewestOf(TrimmedMessage(log[i]), 40)

\* C2: for every chat request whose message is empty or only whitespace, the reply
\* is the fixed onboarding text, whatever history is supplied.
C2_BlankMessageGetsOnboarding ==
    \A i \in DOMAIN log :
        (/\ Answered(log[i])
         /\ \A k \in DOMAIN log[i].request.body.message.value :
               log[i].request.body.message.value[k] \in {" ", "\t", "\n"}) =>
            log[i].response.body.reply = Onboarding

\* a reply to a whitespace-only message sent with a history of which entries are kept
C2_Witness ==
    \E i \in DOMAIN log :
        /\ Answered(log[i])
        /\ log[i].request.body.message.value = <<" ", "\t", "\n">>
        /\ Len(Supplied(log[i])) > 8
        /\ ReturnedHistory(log[i]) # <<>>
        /\ log[i].response.body.reply = Onboarding

\* C3: the returned messages without the two appended ones are at most 8, are an
\* order-preserving subsequence of the last 8 supplied entries, and hold no role
\* outside user, assistant, system.
C3_HistoryIsFilteredTail ==
    \A i \in DOMAIN log :
        Answered(log[i]) =>
            /\ Len(ReturnedHistory(log[i])) <= 8
            /\ IsSubsequence(ReturnedHistory(log[i]), NewestOf(Supplied(log[i]), 8))
            /\ \A k \in DOMAIN ReturnedHistory(log[i]) :
                  ReturnedHistory(log[i])[k].role \in {"user", "assistant", "system"}

\* a history of more than 8 entries of which some of the last 8 are kept and some
\* are dropped, and whose oldest entry has a valid role
C3_Witness ==
    \E i \in DOMAIN log :
        /\ Answered(log[i])
        /\ Len(Supplied(log[i])) > 8
        /\ HasValidRole(Defaulted(Supplied(log[i])[1]))
        /\ Len(ReturnedHistory(log[i])) \in 1..7

C5_TestAlwaysAnswers200 ==
    \A i \in DOMAIN log : IsTest(log[i]) => log[i].response.status = 200

\* GET /test was answered while the import of the database module raised an error
\* that is no ImportError
C5_Witness ==
    \E i \in DOMAIN log :
        /\ IsTest(log[i])
        /\ database.import_raises = "RuntimeError"
        /\ log[i].response.status = 200

\* C6, as claimed: every chat request whose body matches the schema is answered
\* with a ChatResponse, status 200.
C6_SchemaValidIsAnswered ==
    \A i \in DOMAIN log :
        (IsChat(log[i]) /\ MatchesSchema(log[i].request.body)) =>
            log[i].response.status = 200

\* C7: the database field of the /test response, by the state of the collaborator.
C7_DatabaseFieldByState ==
    \A i \in DOMAIN log :
        IsTest(log[i]) =>
            LET body == log[i].response.body
            IN  /\ database.import_raises \in {"ImportError", "ModuleNotFoundError"} =>
                      body.database = DbModuleNotFound
                /\ (database.import_raises = "" /\ database.db = "None") =>
                      body.database = DbNotInitialized
                /\ (database.import_raises = "" /\ database.db # "None"
                        /\ database.list_raises = "") =>
                      /\ body.database = DbWorking
                      /\ body.collections = FirstOf(database.collection_names, 10)
                /\ (database.import_raises = "" /\ database.db # "None"
                        /\ database.list_raises # "") =>
                      /\ body.database =
                            DbConnectedButError \o FirstOf(database.list_text, 50)
                      /\ body.collections = <<>>

\* GET /test was answered while listing the collections raised an error whose text
\* is longer than 50 characters
C7_Witness ==
    \E i \in DOMAIN log :
        /\ IsTest(log[i])
        /\ log[i].response.status = 200
        /\ database.import_raises = "" /\ database.db # "None"
        /\ database.list_raises # ""
        /\ Len(database.list_text) > 50

\* C8: database_url and database_name of the /test response say only whether
\* DATABASE_URL and DATABASE_NAME are set to a non-empty value; they are the same
\* in every state of the collaborator, and nothing the handle provided (its name,
\* the marks written while it was probed) is in them.
C8_EnvFieldsFromEnvOnly ==
    \A i \in DOMAIN log :
        IsTest(log[i]) =>
            LET body == log[i].response.body
            IN  /\ body.database_url =
                      IF env.DATABASE_URL \in {Unset, ""} THEN "[x] Not Set" ELSE "[ok] Set"
                /\ body.database_name =
                      IF env.DATABASE_NAME \in {Unset, ""} THEN "[x] Not Set" ELSE "[ok] Set"
                /\ database.has_name => body.database_name # database.name

\* GET /test was answered with a handle that has a name, while DATABASE_URL is
\* set to the empty text and DATABASE_NAME is not set
C8_Witness ==
    \E i \in DOMAIN log :
        /\ IsTest(log[i])
        /\ log[i].response.status = 200
        /\ database.import_raises = "" /\ database.db # "None" /\ database.has_name
        /\ env.DATABASE_URL = "" /\ env.DATABASE_NAME = Unset

C10_HistoryIsExactlyFilteredTail ==
    \A i \in DOMAIN log :
        Answered(log[i]) =>
            LET tail == NewestOf(Supplied(log[i]), 8)
                defaulted == [k \in DOMAIN tail |-> Defaulted(tail[k])]
                returned == ReturnedHistory(log[i])
            IN  [k \in DOMAIN returned |-> AsEntry(returned[k])]
                    = SelectSeq(defaulted, HasValidRole)

\* a history of more than 8 entries whose last 8 hold an entry without a role,
\* an entry without content and an entry with an invalid role, and whose oldest
\* entry has a valid role
C10_Witness ==
    \E i \in DOMAIN log :
        /\ Answered(log[i])
        /\ Len(Supplied(log[i])) > 8
        /\ HasValidRole(Defaulted(Supplied(log[i])[1]))
        /\ LET tail == NewestOf(Supplied(log[i]), 8)
           IN  /\ \E k \in DOMAIN tail : "role" \notin DOMAIN tail[k].fields
               /\ \E k \in DOMAIN tail : /\ "content" \notin DOMAIN tail[k].fields
                                         /\ HasValidRole(Defaulted(tail[k]))
               /\ \E k \in DOMAIN tail : ~HasValidRole(Defaulted(tail[k]))

=============================================================================
